---- MODULE Spec2Model ----
(***************************************************************************)
(* Model of aic_nlp_utils/split_merge.py: the three splitters, the greedy  *)
(* segment packer, the document tree, structural sectioning (split_md) and *)
(* the cascading bounding pipeline (split_node, split_node_to_list).       *)
(*                                                                         *)
(* A text is a sequence of one-character strings.  Offsets into a text are *)
(* Python's (0-based, slices half-open); Slice translates them.            *)
(***************************************************************************)
EXTENDS Integers, Sequences, FiniteSets, TLC

VARIABLES
    pc,         \* position of the running call
    fn,         \* the function that was called
    text,       \* the text argument of a splitter call
    maxLength,  \* the bound argument
    lengths,    \* the lengths argument of merge_chunks_greedy
    result,     \* the value returned
    raised,     \* the exception that left the call, "none" if none
    node,       \* the argument of split_node: [kind |-> "str", text] or [kind |-> "node", id]
    chunks,     \* what the markdown splitter returned: records [headers, content]
    ci,         \* number of chunks split_md has processed
    heap,       \* the document nodes allocated so far, by identity
    root,       \* identity of the ROOT node of split_md (0: none yet)
    stack,      \* split_md's stack of [level, name, node] frames
    stage,      \* index into split_stages (1..3) of the running stage
    gen         \* the frames of the running iter_leaves generator

vars == <<pc, fn, text, maxLength, lengths, result, raised, node, chunks, ci,
          heap, root, stack, stage, gen>>

callVars == <<fn, text, maxLength, lengths, result, raised>>
treeVars == <<node, chunks, ci, heap, root, stack, stage, gen>>

----------------------------------------------------------------------------
(* Bounds of the model *)

MaxTextLen == 4      \* longest text given to a splitter
MaxBound == 3        \* largest maxLength
MaxItems == 4        \* longest lengths list given to merge_chunks_greedy
MaxItemLen == 3      \* largest single length in that list
MaxLevel == 2        \* deepest header level a chunk names (of 'Header 1'..'Header 6')
MaxChunks == 3       \* most chunks the markdown splitter returns to split_md
MaxDocLen == 4       \* longest document given to split_node
MaxDocBound == 2     \* largest maxLength given to split_node
MaxDocChunks == 2    \* most chunks the markdown splitter cuts a document into

Bounds == (0 - 1)..MaxBound

\* the characters texts are made of: a letter that is no abbreviation, the
\* letters of the abbreviations "L" and "al", sentence punctuation, the two
\* whitespace characters, and the brackets of the boundary pattern
Chars == {"a", "l", "L", ".", "!", " ", "\n", "]", "["}

RECURSIVE TextsOfLen(_, _)
TextsOfLen(S, n) ==
    IF n = 0 THEN {<<>>}
    ELSE {Append(t, c) : t \in TextsOfLen(S, n - 1), c \in S}

TextsUpTo(S, n) == UNION {TextsOfLen(S, k) : k \in 0..n}

----------------------------------------------------------------------------
(* Python string and list primitives *)

Min(a, b) == IF a < b THEN a ELSE b
Max(a, b) == IF a > b THEN a ELSE b

\* t[i:j] for 0 <= i, 0 <= j
Slice(t, i, j) == SubSeq(t, Min(i, Len(t)) + 1, Min(j, Len(t)))

\* ''.join(parts)
RECURSIVE Join(_)
Join(parts) ==
    IF parts = <<>> THEN <<>> ELSE Head(parts) \o Join(Tail(parts))

\* str.isspace() of one character
IsSpace(c) == c \in {" ", "\n"}

\* the character class [.!?]
IsEndPunct(c) == c \in {".", "!", "?"}

----------------------------------------------------------------------------
(* ABBREVIATIONS: the entries of the table that can occur in a text over    *)
(* Chars ("L" of EN_ABBREVIATIONS' units, "al" of its text abbreviations);  *)
(* no other entry can equal a slice of such a text.                         *)

ABBREVIATIONS == {<<"L">>, <<"a", "l">>}

----------------------------------------------------------------------------
(* split_paragraphs *)

\* index (1-based) of the first "\n" of t at or after k, Len(t)+1 if none
RECURSIVE NextNewline(_, _)
NextNewline(t, k) ==
    IF k > Len(t) THEN Len(t) + 1
    ELSE IF t[k] = "\n" THEN k ELSE NextNewline(t, k + 1)

\* index of the last "\n" of the run of newlines that starts at k
RECURSIVE RunEnd(_, _)
RunEnd(t, k) ==
    IF k + 1 <= Len(t) /\ t[k + 1] = "\n" THEN RunEnd(t, k + 1) ELSE k

\* re.split(r'(\n+)', t): text pieces and the newline runs between them
RECURSIVE ReSplitNewlines(_)
ReSplitNewlines(t) ==
    LET i == NextNewline(t, 1) IN
    IF i > Len(t) THEN <<t>>
    ELSE LET j == RunEnd(t, i) IN
         <<SubSeq(t, 1, i - 1), SubSeq(t, i, j)>>
             \o ReSplitNewlines(SubSeq(t, j + 1, Len(t)))

\* the loop over parts, from part k on, with the buffer and the result so far
RECURSIVE ParagraphLoop(_, _, _, _)
ParagraphLoop(parts, k, buf, res) ==
    IF k > Len(parts)
    THEN IF buf # <<>> THEN Append(res, buf) ELSE res
    ELSE LET part == parts[k] IN
         IF part = <<>> THEN ParagraphLoop(parts, k + 1, buf, res)
         ELSE IF part[1] = "\n"
              THEN ParagraphLoop(parts, k + 1, <<>>, Append(res, buf \o part))
              ELSE ParagraphLoop(parts, k + 1, buf \o part, res)

split_paragraphs(t) ==
    IF t = <<>> THEN <<>>
    ELSE ParagraphLoop(ReSplitNewlines(t), 1, <<>>, <<>>)

----------------------------------------------------------------------------
(* split_sentences *)

\* the lookahead (?=(\s|$|[\]\)])|\[\[) at offset e of t
LookaheadOk(t, e) ==
    \/ e = Len(t)
    \/ e < Len(t) /\ (IsSpace(t[e + 1]) \/ t[e + 1] \in {"]", ")"})
    \/ e + 2 <= Len(t) /\ t[e + 1] = "[" /\ t[e + 2] = "["

\* the ends e > p for which t[p:e] is all of [.!?] and the lookahead holds
MatchEnds(t, p) ==
    {e \in (p + 1)..Len(t) :
        /\ \A k \in (p + 1)..e : IsEndPunct(t[k])
        /\ LookaheadOk(t, e)}

\* the largest element of a non-empty set of integers
MaxOf(S) == CHOOSE x \in S : \A y \in S : y <= x

\* sentence_end_re.finditer(t) from offset p: the matches [start, end], each
\* the longest match at the first offset that has one ([.!?]+ is greedy)
RECURSIVE FindIter(_, _)
FindIter(t, p) ==
    IF p >= Len(t) THEN <<>>
    ELSE IF MatchEnds(t, p) # {}
         THEN LET e == MaxOf(MatchEnds(t, p)) IN
              <<[start |-> p, end |-> e]>> \o FindIter(t, e)
         ELSE FindIter(t, p + 1)

\* the abbreviation test of the match that ends at offset end
AbbrevOk(t, end) ==
    \E abbr \in ABBREVIATIONS :
        Slice(t, Max(0, end - Len(abbr) - 1), end - 1) = abbr

\* AppendMoved without result[-1] += chunk[0]: the whitespace is dropped
AppendMovedDropping(res, chunk) ==
    IF res # <<>> /\ chunk # <<>> /\ IsSpace(chunk[1])
    THEN Append(res, Tail(chunk))
    ELSE Append(res, chunk)

\* result.append(chunk) after moving one leading whitespace character of
\* chunk to the end of the previous fragment
AppendMoved(res, chunk) ==
    IF res # <<>> /\ chunk # <<>> /\ IsSpace(chunk[1])
    THEN Append([res EXCEPT ![Len(res)] = Append(@, chunk[1])], Tail(chunk))
    ELSE Append(res, chunk)

\* the loop over the matches, from match k on
RECURSIVE SentenceLoop(_, _, _, _, _)
SentenceLoop(t, ms, k, start, res) ==
    IF k > Len(ms)
    THEN IF start < Len(t)
         THEN AppendMoved(res, Slice(t, start, Len(t)))
         ELSE res
    ELSE LET end == ms[k].end IN
         IF AbbrevOk(t, end)
         THEN SentenceLoop(t, ms, k + 1, start, res)
         ELSE SentenceLoop(t, ms, k + 1, end,
                           AppendMoved(res, Slice(t, start, end)))

split_sentences(t) ==
    IF t = <<>> THEN <<>>
    ELSE SentenceLoop(t, FindIter(t, 0), 1, 0, <<>>)

----------------------------------------------------------------------------
(* split_chars *)

\* [t[i:i+m] for i in range(i, len(t), m)]
RECURSIVE CharWindows(_, _, _)
CharWindows(t, i, m) ==
    IF i >= Len(t) THEN <<>>
    ELSE <<Slice(t, i, i + m)>> \o CharWindows(t, i + m, m)

\* split_chars with the bound validated before the empty-text return
split_chars_bound_first(t, m) ==
    IF m <= 0 THEN [raised |-> "ValueError", value |-> <<>>]
    ELSE IF t = <<>> THEN [raised |-> "none", value |-> <<>>]
    ELSE [raised |-> "none", value |-> CharWindows(t, 0, m)]

\* the outcome of split_chars(t, m): an exception or a value
split_chars(t, m) ==
    IF t = <<>> THEN [raised |-> "none", value |-> <<>>]
    ELSE IF m <= 0 THEN [raised |-> "ValueError", value |-> <<>>]
    ELSE [raised |-> "none", value |-> CharWindows(t, 0, m)]

----------------------------------------------------------------------------
(* merge_chunks_greedy *)

\* Absorb comparing the next item alone with the bound (seg_sum forgotten)
RECURSIVE AbsorbItemOnly(_, _, _, _)
AbsorbItemOnly(ls, m, j, sum) ==
    IF j + 1 < Len(ls) /\ ls[j + 2] <= m
    THEN AbsorbItemOnly(ls, m, j + 1, sum + ls[j + 2])
    ELSE j

\* Absorb with < for <=: a segment is closed one item early at the bound
RECURSIVE AbsorbStrict(_, _, _, _)
AbsorbStrict(ls, m, j, sum) ==
    IF j + 1 < Len(ls) /\ sum + ls[j + 2] < m
    THEN AbsorbStrict(ls, m, j + 1, sum + ls[j + 2])
    ELSE j

\* the inner while loop: the last index j of the segment that starts with
\* seg_sum accumulated up to j
RECURSIVE Absorb(_, _, _, _)
Absorb(ls, m, j, sum) ==
    IF j + 1 < Len(ls) /\ sum + ls[j + 2] <= m
    THEN Absorb(ls, m, j + 1, sum + ls[j + 2])
    ELSE j

\* list(range(i, j+1))
Range(i, j) == [k \in 1..(j - i + 1) |-> i + k - 1]

\* the outer while loop from index i (0-based) with the segments so far
RECURSIVE MergeLoop(_, _, _, _)
MergeLoop(ls, m, i, out) ==
    IF i >= Len(ls) THEN out
    ELSE IF ls[i + 1] > m
         THEN MergeLoop(ls, m, i + 1, Append(out, <<i>>))
         ELSE LET j == Absorb(ls, m, i, ls[i + 1]) IN
              MergeLoop(ls, m, j + 1, Append(out, Range(i, j)))

merge_chunks_greedy(ls, m) == MergeLoop(ls, m, 0, <<>>)

----------------------------------------------------------------------------
(* The document tree: nodes live in heap and are named by their index *)

\* LeafDocumentNode(doc)
LeafDocumentNode(doc) ==
    [kind |-> "Leaf", name |-> "", doc |-> doc, children |-> <<>>]

\* InnerDocumentNode(name)
InnerDocumentNode(name) ==
    [kind |-> "Inner", name |-> name, doc |-> <<>>, children |-> <<>>]

\* the identity the next allocated node gets
NewId(h) == Len(h) + 1

\* node.text()
RECURSIVE NodeText(_, _)
NodeText(h, id) ==
    IF h[id].kind = "Leaf" THEN h[id].doc
    ELSE Join([k \in 1..Len(h[id].children) |-> NodeText(h, h[id].children[k])])

\* LeafDocumentNode.len() with an off-by-one
LeafLenShort(h, id) == Len(h[id].doc) - 1

\* LeafDocumentNode.len()
LeafLen(h, id) == Len(h[id].doc)

\* InnerDocumentNode.add_child(child) on node id
add_child(h, id, child) == [h EXCEPT ![id].children = Append(@, child)]

\* InnerDocumentNode.set_child(child, idx) on node id
set_child(h, id, child, idx) == [h EXCEPT ![id].children[idx + 1] = child]

\* list(node.iter_leaves()): the (leaf, parent, idx) triples in tree order
RECURSIVE IterLeaves(_, _)
IterLeaves(h, id) ==
    Join([k \in 1..Len(h[id].children) |->
            LET child == h[id].children[k] IN
            IF h[child].kind = "Leaf"
            THEN <<[leaf |-> child, parent |-> id, cidx |-> k - 1]>>
            ELSE IterLeaves(h, child)])

\* the texts of the leaves below node id, in tree order
LeafTexts(h, id) ==
    LET ls == IterLeaves(h, id) IN [k \in 1..Len(ls) |-> h[ls[k].leaf].doc]

\* the nodes of the subtree of id, id included
RECURSIVE Subtree(_, _)
Subtree(h, id) ==
    {id} \cup UNION {Subtree(h, h[id].children[k]) : k \in 1..Len(h[id].children)}

\* a generator that, resumed after it has yielded a leaf, looks again at
\* the child slot that leaf was in
RECURSIVE GenNextSameSlot(_, _)
GenNextSameSlot(h, fr) ==
    IF fr = <<>> THEN [done |-> TRUE, frames |-> <<>>, leaf |-> 0, parent |-> 0, cidx |-> 0]
    ELSE LET top == fr[Len(fr)]
             kids == h[top.node].children
         IN IF top.idx >= Len(kids)
            THEN GenNextSameSlot(h, SubSeq(fr, 1, Len(fr) - 1))
            ELSE IF h[kids[top.idx + 1]].kind = "Leaf"
                 THEN [done |-> FALSE, frames |-> fr, leaf |-> kids[top.idx + 1],
                       parent |-> top.node, cidx |-> top.idx]
                 ELSE GenNextSameSlot(h,
                        Append([fr EXCEPT ![Len(fr)].idx = @ + 1],
                               [node |-> kids[top.idx + 1], idx |-> 0]))

\* a running iter_leaves generator is its frames [node, idx], one for each
\* _iter_leaves on the call stack; idx is the next index enumerate gives.
\* GenNext resumes it on the heap as it is now: the next triple it yields
\* with the frames it is left in, or done when it is exhausted.
RECURSIVE GenNext(_, _)
GenNext(h, fr) ==
    IF fr = <<>> THEN [done |-> TRUE, frames |-> <<>>, leaf |-> 0, parent |-> 0, cidx |-> 0]
    ELSE LET top == fr[Len(fr)]
             kids == h[top.node].children
         IN IF top.idx >= Len(kids)
            THEN GenNext(h, SubSeq(fr, 1, Len(fr) - 1))
            ELSE LET child == kids[top.idx + 1]
                     fr2 == [fr EXCEPT ![Len(fr)].idx = @ + 1]
                 IN IF h[child].kind = "Leaf"
                    THEN [done |-> FALSE, frames |-> fr2, leaf |-> child,
                          parent |-> top.node, cidx |-> top.idx]
                    ELSE GenNext(h, Append(fr2, [node |-> child, idx |-> 0]))

\* root.iter_leaves() before its first resumption
GenStart(id) == <<[node |-> id, idx |-> 0]>>

----------------------------------------------------------------------------
(* split_md *)

Frame(level, name, id) == [level |-> level, name |-> name, node |-> id]

\* while len(stack) > 1 and stack[-1][0] >= max_level: stack.pop()
RECURSIVE PopTo(_, _)
PopTo(stk, max_level) ==
    IF Len(stk) > 1 /\ stk[Len(stk)].level >= max_level
    THEN PopTo(SubSeq(stk, 1, Len(stk) - 1), max_level)
    ELSE stk

\* stack[:level] followed by stack.append(frame)
Repush(stk, level, frame) == Append(SubSeq(stk, 1, Min(level, Len(stk))), frame)

\* the loop of BuildPath, were a level without header text skipped and no
\* DUMMY created for it
RECURSIVE BuildPathNoDummy(_, _, _, _, _)
BuildPathNoDummy(h, stk, headers, level, max_level) ==
    IF level > max_level THEN [heap |-> h, stack |-> stk]
    ELSE IF level \in DOMAIN headers
         THEN BuildPathNoDummy(
                add_child(Append(h, InnerDocumentNode(headers[level])),
                          stk[Len(stk)].node, NewId(h)),
                Repush(stk, level, Frame(level, headers[level], NewId(h))),
                headers, level + 1, max_level)
         ELSE BuildPathNoDummy(h, stk, headers, level + 1, max_level)

\* the loop "for level in range(.., max_level + 1)" from level on, on the
\* heap and stack as they are: a section reused, a section created or a
\* DUMMY created at each level
RECURSIVE BuildPath(_, _, _, _, _)
BuildPath(h, stk, headers, level, max_level) ==
    IF level > max_level THEN [heap |-> h, stack |-> stk]
    ELSE LET parent_node == stk[Len(stk)].node
             id == NewId(h)
         IN IF level \in DOMAIN headers
            THEN IF /\ Len(stk) > level
                    /\ stk[level + 1].level = level
                    /\ stk[level + 1].name = headers[level]
                 THEN BuildPath(h, stk, headers, level + 1, max_level)
                 ELSE BuildPath(
                        add_child(Append(h, InnerDocumentNode(headers[level])),
                                  parent_node, id),
                        Repush(stk, level, Frame(level, headers[level], id)),
                        headers, level + 1, max_level)
            ELSE BuildPath(
                    add_child(Append(h, InnerDocumentNode("DUMMY")), parent_node, id),
                    Repush(stk, level, Frame(level, "DUMMY", id)),
                    headers, level + 1, max_level)

\* one iteration of "for chunk in chunks"
MdChunk(h, stk, rootId, chunk) ==
    IF DOMAIN chunk.headers = {}
    THEN [heap |-> add_child(Append(h, LeafDocumentNode(chunk.content)), rootId, NewId(h)),
          stack |-> stk]
    ELSE LET max_level == MaxOf(DOMAIN chunk.headers)
             popped == PopTo(stk, max_level)
             built == BuildPath(h, popped, chunk.headers,
                                popped[Len(popped)].level + 1, max_level)
             deepest == built.stack[Len(built.stack)].node
         IN [heap |-> add_child(Append(built.heap, LeafDocumentNode(chunk.content)),
                                deepest, NewId(built.heap)),
             stack |-> built.stack]

\* split_md starts: the splitter has returned chunks; ROOT and the stack
SplitMdEnter ==
    /\ pc = "split_md"
    /\ heap' = Append(heap, InnerDocumentNode("ROOT"))
    /\ root' = NewId(heap)
    /\ stack' = <<Frame(0, "ROOT", NewId(heap))>>
    /\ ci' = 0
    /\ pc' = "md_loop"
    /\ UNCHANGED <<node, chunks, stage, gen>>
    /\ UNCHANGED callVars

SplitMdChunk ==
    /\ pc = "md_loop"
    /\ ci < Len(chunks)
    /\ LET out == MdChunk(heap, stack, root, chunks[ci + 1]) IN
        /\ heap' = out.heap
        /\ stack' = out.stack
    /\ ci' = ci + 1
    /\ UNCHANGED <<pc, node, chunks, root, stage, gen>>
    /\ UNCHANGED callVars

\* return root: to the caller of split_md, or into split_node
SplitMdReturn ==
    /\ pc = "md_loop"
    /\ ci = Len(chunks)
    /\ pc' = IF fn = "split_md" THEN "done" ELSE "sectioned"
    /\ UNCHANGED treeVars
    /\ UNCHANGED callVars

----------------------------------------------------------------------------
(* Calls of the pure functions *)

NoTree ==
    /\ node = [kind |-> "none", text |-> <<>>, id |-> 0]
    /\ chunks = <<>>
    /\ ci = 0
    /\ heap = <<>>
    /\ root = 0
    /\ stack = <<>>
    /\ stage = 0
    /\ gen = <<>>

\* the reconstruction assertion that ends a splitter
Checked(t, res) ==
    IF Join(res) = t THEN [raised |-> "none", value |-> res]
    ELSE [raised |-> "AssertionError", value |-> <<>>]

Return(f, out) ==
    /\ pc' = "done"
    /\ fn' = f
    /\ result' = out.value
    /\ raised' = out.raised

InitSplit ==
    /\ pc = "call"
    /\ fn = "none"
    /\ text \in TextsUpTo(Chars, MaxTextLen)
    /\ maxLength = 0
    /\ lengths = <<>>
    /\ result = <<>>
    /\ raised = "none"
    /\ NoTree

CallSplitParagraphs ==
    /\ pc = "call"
    /\ Return("split_paragraphs", Checked(text, split_paragraphs(text)))
    /\ UNCHANGED <<text, maxLength, lengths>>
    /\ UNCHANGED treeVars

CallSplitSentences ==
    /\ pc = "call"
    /\ Return("split_sentences", Checked(text, split_sentences(text)))
    /\ UNCHANGED <<text, maxLength, lengths>>
    /\ UNCHANGED treeVars

CallSplitChars ==
    /\ pc = "call"
    /\ \E m \in Bounds :
        /\ maxLength' = m
        /\ LET out == split_chars(text, m) IN
           Return("split_chars",
                  IF out.raised = "none" /\ text # <<>>
                  THEN Checked(text, out.value) ELSE out)
    /\ UNCHANGED <<text, lengths>>
    /\ UNCHANGED treeVars

NextSplit == CallSplitParagraphs \/ CallSplitSentences \/ CallSplitChars

SpecSplit == InitSplit /\ [][NextSplit]_vars

InitMerge ==
    /\ pc = "call"
    /\ fn = "none"
    /\ text = <<>>
    /\ maxLength \in Bounds
    /\ lengths \in TextsUpTo(0..MaxItemLen, MaxItems)
    /\ result = <<>>
    /\ raised = "none"
    /\ NoTree

CallMergeChunksGreedy ==
    /\ pc = "call"
    /\ Return("merge_chunks_greedy",
              [raised |-> "none", value |-> merge_chunks_greedy(lengths, maxLength)])
    /\ UNCHANGED <<text, maxLength, lengths>>
    /\ UNCHANGED treeVars

NextMerge == CallMergeChunksGreedy

SpecMerge == InitMerge /\ [][NextMerge]_vars

----------------------------------------------------------------------------
(* split_node and split_node_to_list *)

\* split_stages: the stage names and their split functions
split_stages ==
    <<[stage |-> "PAR", split_fn |-> "split_paragraphs"],
      [stage |-> "SNT", split_fn |-> "split_sentences"],
      [stage |-> "CHR", split_fn |-> "split_chars"]>>

\* the number of required positional parameters of a split function
Params(f) == IF f = "split_chars" THEN 2 ELSE 1

\* split_fn(leaf.text()): a call with one positional argument
CallSplitFn(f, t) ==
    IF Params(f) # 1 THEN [raised |-> "TypeError", value |-> <<>>]
    ELSE IF f = "split_paragraphs" THEN Checked(t, split_paragraphs(t))
    ELSE Checked(t, split_sentences(t))

\* [''.join([chunks[sidx] for sidx in seg]) for seg in segments]
MergedSplits(cs, segments) ==
    [s \in 1..Len(segments) |->
        Join([k \in 1..Len(segments[s]) |-> cs[segments[s][k] + 1]])]

\* the heap after [inner_node.add_child(LeafDocumentNode(ms)) for ms in
\* merged_splits] on a new InnerDocumentNode(stage) and
\* parent.set_child(inner_node, cidx)
Replaced(h, stageName, merged_splits, parent, cidx) ==
    LET inner == NewId(h)
        kids == [k \in 1..Len(merged_splits) |-> inner + k]
        leaves == [k \in 1..Len(merged_splits) |-> LeafDocumentNode(merged_splits[k])]
        h2 == Append(h, [InnerDocumentNode(stageName) EXCEPT !.children = kids]) \o leaves
    IN set_child(h2, parent, inner, cidx)

\* the loop body, were every leaf the PAR stage visits handed to its split
\* function, whatever its length
LoopBodyParAlways(h, st, m, y) ==
    IF st.stage = "PAR" \/ LeafLen(h, y.leaf) > m
    THEN LET out == CallSplitFn(st.split_fn, NodeText(h, y.leaf)) IN
         IF out.raised # "none" THEN [raised |-> out.raised, heap |-> h]
         ELSE LET merged_splits ==
                    MergedSplits(out.value,
                        merge_chunks_greedy(
                            [k \in 1..Len(out.value) |-> Len(out.value[k])], m))
              IN IF NodeText(h, y.leaf) # Join(merged_splits)
                 THEN [raised |-> "AssertionError", heap |-> h]
                 ELSE [raised |-> "none",
                       heap |-> Replaced(h, st.stage, merged_splits, y.parent, y.cidx)]
    ELSE [raised |-> "none", heap |-> h]

\* the body of "for leaf, parent, cidx in root.iter_leaves()" for the triple
\* y of the stage st: the heap after it, or the exception that leaves it
LoopBody(h, st, m, y) ==
    IF LeafLen(h, y.leaf) > m
    THEN LET out == CallSplitFn(st.split_fn, NodeText(h, y.leaf)) IN
         IF out.raised # "none" THEN [raised |-> out.raised, heap |-> h]
         ELSE LET cs == out.value
                  lens == [k \in 1..Len(cs) |-> Len(cs[k])]
                  segments == merge_chunks_greedy(lens, m)
                  merged_splits == MergedSplits(cs, segments)
              IN IF NodeText(h, y.leaf) # Join(merged_splits)
                 THEN [raised |-> "AssertionError", heap |-> h]
                 ELSE [raised |-> "none",
                       heap |-> Replaced(h, st.stage, merged_splits, y.parent, y.cidx)]
    ELSE [raised |-> "none", heap |-> h]

\* Raise(e): the exception e leaves split_node
Raise(e) ==
    /\ pc' = "done"
    /\ raised' = e

\* split_node that takes a tree it is given as the sectioned tree
SplitNodeEnterKeepingTree ==
    /\ pc = "split_node"
    /\ IF node.kind = "str"
       THEN /\ heap' = Append(heap, LeafDocumentNode(node.text))
            /\ node' = [kind |-> "node", text |-> <<>>, id |-> NewId(heap)]
            /\ pc' = "split_md"
            /\ root' = root
       ELSE /\ pc' = "sectioned"
            /\ root' = node.id
            /\ UNCHANGED <<heap, node>>
    /\ UNCHANGED <<chunks, ci, stack, stage, gen>>
    /\ UNCHANGED callVars

\* split_node starts: a str is wrapped in a leaf; split_md is called on the
\* node either way
SplitNodeEnter ==
    /\ pc = "split_node"
    /\ IF node.kind = "str"
       THEN /\ heap' = Append(heap, LeafDocumentNode(node.text))
            /\ node' = [kind |-> "node", text |-> <<>>, id |-> NewId(heap)]
       ELSE UNCHANGED <<heap, node>>
    /\ pc' = "split_md"
    /\ UNCHANGED <<chunks, ci, root, stack, stage, gen>>
    /\ UNCHANGED callVars

\* assert root.text() == node.text() after split_md
AssertSectioned ==
    /\ pc = "sectioned"
    /\ IF NodeText(heap, root) = NodeText(heap, node.id)
       THEN /\ pc' = "stages"
            /\ stage' = 1
            /\ gen' = GenStart(root)
            /\ UNCHANGED raised
       ELSE /\ Raise("AssertionError")
            /\ UNCHANGED <<stage, gen>>
    /\ UNCHANGED <<node, chunks, ci, heap, root, stack>>
    /\ UNCHANGED <<fn, text, maxLength, lengths, result>>

\* the generator yields a leaf and the loop body runs on it
StageVisitLeaf ==
    /\ pc = "stages"
    /\ LET y == GenNext(heap, gen) IN
        /\ ~y.done
        /\ LET out == LoopBody(heap, split_stages[stage], maxLength, y) IN
            IF out.raised = "none"
            THEN /\ heap' = out.heap
                 /\ gen' = y.frames
                 /\ UNCHANGED <<pc, raised>>
            ELSE /\ Raise(out.raised)
                 /\ UNCHANGED <<heap, gen>>
    /\ UNCHANGED <<node, chunks, ci, root, stack, stage>>
    /\ UNCHANGED <<fn, text, maxLength, lengths, result>>

\* the generator is exhausted: the next stage starts, or the stages are over
StageEnd ==
    /\ pc = "stages"
    /\ GenNext(heap, gen).done
    /\ IF stage < Len(split_stages)
       THEN /\ stage' = stage + 1
            /\ gen' = GenStart(root)
            /\ UNCHANGED pc
       ELSE /\ pc' = "check"
            /\ gen' = <<>>
            /\ UNCHANGED stage
    /\ UNCHANGED <<node, chunks, ci, heap, root, stack>>
    /\ UNCHANGED callVars

\* the leaves iter_leaves gives whose len() exceeds m
LongLeaves(h, id, m) ==
    LET ls == IterLeaves(h, id) IN
    {k \in 1..Len(ls) : LeafLen(h, ls[k].leaf) > m}

\* the two closing assertions of split_node, its return, and the list
\* split_node_to_list makes of the returned tree
SplitNodeReturn ==
    /\ pc = "check"
    /\ IF LongLeaves(heap, root, maxLength) # {}
          \/ NodeText(heap, root) # NodeText(heap, node.id)
       THEN /\ Raise("AssertionError")
            /\ UNCHANGED result
       ELSE /\ pc' = "done"
            /\ result' = LeafTexts(heap, root)
            /\ UNCHANGED raised
    /\ UNCHANGED treeVars
    /\ UNCHANGED <<fn, text, maxLength, lengths>>

\* the characters documents are made of: a letter, sentence punctuation and
\* the newline, which ends a paragraph and is whitespace
DocChars == {"a", ".", "\n"}

\* the header mappings of the chunks of a document: none, or a level-1 header
DocHeaderMaps == {<<>>, <<"A">>}

\* the ways to cut t into n non-empty pieces, in order
RECURSIVE Cuts(_, _)
Cuts(t, n) ==
    IF n = 0 THEN (IF t = <<>> THEN {<<>>} ELSE {})
    ELSE UNION {{<<SubSeq(t, 1, k)>> \o rest : rest \in Cuts(SubSeq(t, k + 1, Len(t)), n - 1)} :
                    k \in 1..Len(t)}

\* splitter.split_text(t): what the markdown splitter may return for t, by
\* its contract that the chunk contents concatenate to t
SplitText(t) ==
    UNION {UNION {{[k \in 1..n |-> [headers |-> hs[k], content |-> cut[k]]] :
                        hs \in [1..n -> DocHeaderMaps]} :
                    cut \in Cuts(t, n)} :
            n \in 0..MaxDocChunks}

\* a tree built by the caller: SEC > (leaf, SUB > leaf), the first leaf
\* holding the first k characters of its text
GivenTree(t, k) ==
    <<[InnerDocumentNode("SEC") EXCEPT !.children = <<2, 3>>],
      LeafDocumentNode(SubSeq(t, 1, k)),
      [InnerDocumentNode("SUB") EXCEPT !.children = <<4>>],
      LeafDocumentNode(SubSeq(t, k + 1, Len(t)))>>

Init ==
    /\ pc = "split_node"
    /\ fn = "split_node_to_list"
    /\ text \in TextsUpTo(DocChars, MaxDocLen)
    /\ maxLength \in 0..MaxDocBound
    /\ chunks \in SplitText(text)
    /\ \/ /\ node = [kind |-> "str", text |-> text, id |-> 0]
          /\ heap = <<>>
       \/ /\ Len(text) >= 2
          /\ node = [kind |-> "node", text |-> <<>>, id |-> 1]
          /\ heap = GivenTree(text, 1)
    /\ lengths = <<>>
    /\ result = <<>>
    /\ raised = "none"
    /\ ci = 0
    /\ root = 0
    /\ stack = <<>>
    /\ stage = 0
    /\ gen = <<>>

Next ==
    \/ SplitNodeEnter
    \/ SplitMdEnter
    \/ SplitMdChunk
    \/ SplitMdReturn
    \/ AssertSectioned
    \/ StageVisitLeaf
    \/ StageEnd
    \/ SplitNodeReturn

Spec == Init /\ [][Next]_vars

----------------------------------------------------------------------------
(* Properties of merge_chunks_greedy *)

\* sum of lengths[i] for the 0-based indices i of seg
RECURSIVE SegSum(_, _)
SegSum(ls, seg) ==
    IF seg = <<>> THEN 0 ELSE ls[Head(seg) + 1] + SegSum(ls, Tail(seg))

\* a segment the packer may emit: within the bound, or one oversized item
ValidSeg(ls, m, seg) ==
    /\ seg # <<>>
    /\ \/ SegSum(ls, seg) <= m
       \/ Len(seg) = 1 /\ ls[seg[1] + 1] > m

MergeReturned == pc = "done" /\ fn = "merge_chunks_greedy"

\* C4: merge_chunks_greedy returns non-empty segments whose concatenation is
\* exactly the indices 0..n-1 in ascending order, and every segment sums to
\* at most maxLength or is a single item that alone exceeds maxLength.
C4_MergeIsBoundedPartition ==
    MergeReturned =>
        /\ Join(result) = Range(0, Len(lengths) - 1)
        /\ \A s \in 1..Len(result) : ValidSeg(lengths, maxLength, result[s])

\* a returned partition with a merged segment and an oversized singleton
C4_Witness ==
    /\ MergeReturned
    /\ \E s \in 1..Len(result) : Len(result[s]) >= 2
    /\ \E s \in 1..Len(result) :
          Len(result[s]) = 1 /\ lengths[result[s][1] + 1] > maxLength

\* the contiguous partition of 0..n-1 cut after the indices in cuts: segment
\* boundaries as a sorted list of first indices
RECURSIVE SegmentsFrom(_, _, _)
SegmentsFrom(n, cuts, i) ==
    IF i >= n THEN <<>>
    ELSE LET later == {c \in cuts : c > i}
             j == IF later = {} THEN n ELSE CHOOSE c \in later : \A d \in later : c <= d
         IN <<Range(i, j - 1)>> \o SegmentsFrom(n, cuts, j)

\* every contiguous ordered partition of 0..n-1 into non-empty segments
Partitions(n) ==
    IF n = 0 THEN {<<>>}
    ELSE {SegmentsFrom(n, cuts, 0) : cuts \in SUBSET (1..(n - 1))}

ValidPartitions(ls, m) ==
    {p \in Partitions(Len(ls)) : \A s \in 1..Len(p) : ValidSeg(ls, m, p[s])}

\* C5: for a positive bound no partition into contiguous ordered segments,
\* each within the bound or a single oversized item, has fewer segments than
\* the one merge_chunks_greedy returns.
C5_MergeIsMinimal ==
    (MergeReturned /\ maxLength > 0) =>
        \A p \in ValidPartitions(lengths, maxLength) : Len(p) >= Len(result)

\* a returned partition of several segments where other valid partitions
\* exist, one of them with more segments
C5_Witness ==
    /\ MergeReturned
    /\ maxLength > 0
    /\ Len(result) >= 2
    /\ \E p \in ValidPartitions(lengths, maxLength) : Len(p) > Len(result)
    /\ \E p \in ValidPartitions(lengths, maxLength) :
          Len(p) = Len(result) /\ p # result

----------------------------------------------------------------------------
(* Properties of the splitters *)

Returned(f) == pc = "done" /\ fn = f

\* C6: split_paragraphs, split_sentences and split_chars with a bound > 0
\* return a list whose concatenation is the text (the reconstruction
\* assertion does not fail), and the empty list for the empty text.
C6_SplittersReconstruct ==
    (\/ Returned("split_paragraphs")
     \/ Returned("split_sentences")
     \/ Returned("split_chars") /\ maxLength > 0) =>
        /\ raised = "none"
        /\ Join(result) = text
        /\ text = <<>> => result = <<>>

\* split_sentences returned two fragments after moving a whitespace
\* character onto the first
C6_Witness ==
    /\ Returned("split_sentences")
    /\ raised = "none"
    /\ Len(result) >= 2
    /\ result[1] # <<>> /\ IsSpace(result[1][Len(result[1])])
    /\ result[2] # <<>>
    /\ Join(result) = text

\* the text right before offset start (where a punctuation run begins) is
\* an entry of the abbreviation table
PrecededByAbbrev(t, start) ==
    \E abbr \in ABBREVIATIONS :
        Len(abbr) <= start /\ Slice(t, start - Len(abbr), start) = abbr

\* the offset at which the k-th fragment of res ends
RECURSIVE EndOffset(_, _)
EndOffset(res, k) == IF k = 0 THEN 0 ELSE EndOffset(res, k - 1) + Len(res[k])

\* a fragment other than the last ends at the punctuation run that ends at
\* offset e: right after it, or after the one whitespace moved behind it
SplitsAt(t, res, e) ==
    \E k \in 1..(Len(res) - 1) :
        \/ EndOffset(res, k) = e
        \/ EndOffset(res, k) = e + 1 /\ IsSpace(t[e + 1])

\* C7: in split_sentences a candidate boundary (a punctuation run the
\* pattern matches) whose preceding text is an abbreviation is suppressed,
\* whatever the length of the run: no fragment ends at it.
C7_AbbrevSuppressesAnyRun ==
    Returned("split_sentences") =>
        \A k \in 1..Len(FindIter(text, 0)) :
            LET m == FindIter(text, 0)[k] IN
            PrecededByAbbrev(text, m.start) => ~SplitsAt(text, result, m.end)

\* C8: no fragment split_sentences returns, other than the first, begins
\* with a whitespace character.
C8_NoLeadingWhitespace ==
    Returned("split_sentences") =>
        \A k \in 2..Len(result) :
            result[k] = <<>> \/ ~IsSpace(result[k][1])

SplitCharsBadBound == Returned("split_chars") /\ maxLength <= 0

\* C9 as stated: for every text, the empty text included, split_chars with
\* maxLength <= 0 raises ValueError.
C9_BadBoundAlwaysRaises ==
    SplitCharsBadBound => raised = "ValueError"

\* C9 amended: split_chars with maxLength <= 0 raises ValueError for every
\* non-empty text, and returns the empty list, raising nothing, for the
\* empty text.
C9_BadBoundRaisesUnlessEmpty ==
    SplitCharsBadBound =>
        IF text = <<>>
        THEN raised = "none" /\ result = <<>>
        ELSE raised = "ValueError"

\* split_chars raised ValueError on a non-empty text
C9_Witness ==
    /\ SplitCharsBadBound
    /\ text # <<>>
    /\ raised = "ValueError"

----------------------------------------------------------------------------
(* split_md called on its own, on what the markdown splitter may return *)

\* header texts
Names == {"A", "B"}

\* the header mappings of a chunk: a header text at any of the levels
HeaderMaps == UNION {[D -> Names] : D \in SUBSET (1..MaxLevel)}

\* the content of the k-th chunk: k characters, so that no two are equal
Content(k) == [i \in 1..k |-> "a"]

\* the chunk sequences with the header mappings hs, one for each chunk
ChunkSeq(hs) == [k \in 1..Len(hs) |-> [headers |-> hs[k], content |-> Content(k)]]

Contents(cs) == [k \in 1..Len(cs) |-> cs[k].content]

InitMd ==
    /\ pc = "split_md"
    /\ fn = "split_md"
    /\ \E n \in 0..MaxChunks : \E hs \in [1..n -> HeaderMaps] : chunks = ChunkSeq(hs)
    /\ text = Join(Contents(chunks))
    /\ heap = <<LeafDocumentNode(text)>>
    /\ node = [kind |-> "node", text |-> <<>>, id |-> 1]
    /\ maxLength = 0
    /\ lengths = <<>>
    /\ result = <<>>
    /\ raised = "none"
    /\ ci = 0
    /\ root = 0
    /\ stack = <<>>
    /\ stage = 0
    /\ gen = <<>>

NextMd == SplitMdEnter \/ SplitMdChunk \/ SplitMdReturn

SpecMd == InitMd /\ [][NextMd]_vars

\* C3: the in-order leaf texts of the tree split_md builds are the chunk
\* contents in input order, for every chunk sequence, a header-less chunk
\* after chunks with headers included.
C3_LeavesAreChunksInOrder ==
    (Returned("split_md")) => LeafTexts(heap, root) = Contents(chunks)

----------------------------------------------------------------------------
(* Properties of split_node and split_node_to_list *)

\* what split_node was given: raw text (wrapped in a leaf once it has
\* started) or a tree built by the caller
GivenStr == node.kind = "str" \/ heap[node.id].kind = "Leaf"
GivenTreeRoot == node.kind = "node" /\ heap[node.id].kind = "Inner"

\* the assertion after split_md has passed
Sectioned == stage >= 1

\* split_node_to_list has returned its list
ListReturned == Returned("split_node_to_list") /\ raised = "none"

\* a node of the stage st is part of the tree below root
HasStageNode(st) == \E i \in Subtree(heap, root) : heap[i].name = st

\* C1: for every text t and bound b > 0, split_node(t, b) completes with no
\* failed assertion, the tree's text is t after sectioning, after every leaf
\* replacement of every stage and on return, and the list of
\* split_node_to_list joins to t.
C1_SplitNodeReconstructs ==
    (GivenStr /\ maxLength > 0) =>
        /\ raised = "none"
        /\ Sectioned => NodeText(heap, root) = text
        /\ pc = "done" => Join(result) = text

\* C2: every fragment of the list split_node_to_list returns has length at
\* most the bound.
C2_FragmentsWithinBound ==
    ListReturned => \A k \in 1..Len(result) : Len(result[k]) <= maxLength

\* a list returned after the PAR and SNT stages both replaced a leaf, with a
\* fragment as long as the bound
C2_Witness ==
    /\ ListReturned
    /\ HasStageNode("PAR")
    /\ HasStageNode("SNT")
    /\ \E k \in 1..Len(result) : Len(result[k]) = maxLength

\* C10 as stated: given a pre-built tree root, split_node does not run
\* split_md, and the Inner nodes of the given tree are part of the tree it
\* returns.
C10_GivenTreeNotResectioned ==
    GivenTreeRoot =>
        /\ pc # "md_loop"
        /\ (pc = "done" /\ raised = "none") =>
              Subtree(heap, node.id) \subseteq Subtree(heap, root)

\* C10 amended: split_node runs split_md on the text of whatever it is
\* given; given a pre-built tree root, the tree it works on and returns is a
\* new ROOT built from the chunks of the given tree's text, no node of the
\* given tree is part of it, and the given tree is left as it was.
C10_GivenTreeResectioned ==
    Sectioned =>
        /\ heap[root].name = "ROOT"
        /\ root # node.id
        /\ GivenTreeRoot =>
              /\ Subtree(heap, root) \cap Subtree(heap, node.id) = {}
              /\ SubSeq(heap, 1, Len(GivenTree(text, 1))) = GivenTree(text, 1)

\* split_node returned for a given tree after replacing an oversized leaf
C10_Witness ==
    /\ GivenTreeRoot
    /\ ListReturned
    /\ HasStageNode("PAR")

----------------------------------------------------------------------------
(* Properties of the tree split_md builds *)

\* the step of split_md that processes the chunk chunks[ci + 1]
ChunkStep == pc = "md_loop" /\ ci' = ci + 1

\* the section open on the stack at the level is the one the headers name
\* at that level
OpenAt(stk, headers, level) ==
    /\ level \in DOMAIN headers
    /\ Len(stk) > level
    /\ stk[level + 1].level = level
    /\ stk[level + 1].name = headers[level]

\* C11: when a chunk names, at some level, the header text of the section
\* still open on the stack at that level, split_md reuses that section: it
\* stays on the stack at that level and its parent gets no further child, so
\* no second Inner node of that name is created next to it.
C11_OpenSectionReused ==
    [][ChunkStep =>
        \A level \in 1..MaxLevel :
            OpenAt(stack, chunks[ci + 1].headers, level) =>
                /\ Len(stack') > level
                /\ stack'[level + 1].node = stack[level + 1].node
                /\ heap'[stack[level].node].children
                     = heap[stack[level].node].children]_vars

\* the parent of a node of the tree below r; the nodes of the tree are made
\* after r
ParentOf(h, r, id) ==
    CHOOSE p \in r..Len(h) :
        \E i \in 1..Len(h[p].children) : h[p].children[i] = id

\* the nodes from r down to the parent of id
RECURSIVE PathTo(_, _, _)
PathTo(h, r, id) ==
    IF id = r THEN <<>>
    ELSE Append(PathTo(h, r, ParentOf(h, r, id)), ParentOf(h, r, id))

\* the leaf of the chunk split_md has just processed: the node made last
LastLeaf == Len(heap)

\* the last node made before that chunk was processed: the leaf of the
\* chunk before it, or ROOT
MadeBefore ==
    MaxOf({root} \cup {i \in (root + 1)..(Len(heap) - 1) : heap[i].kind = "Leaf"})

\* the deepest header level of a chunk, 0 for a chunk without headers
DeepestLevel(chunk) ==
    IF DOMAIN chunk.headers = {} THEN 0 ELSE MaxOf(DOMAIN chunk.headers)

\* C13: after split_md has processed a chunk, the chunk's leaf hangs exactly
\* L section nodes below ROOT, L the chunk's deepest header level (directly
\* under ROOT for a chunk without headers), and every section made for the
\* chunk carries the chunk's header text of its level, or "DUMMY" where the
\* chunk gives none.
C13_LeafDepthIsDeepestLevel ==
    (pc = "md_loop" /\ ci >= 1) =>
        LET path == PathTo(heap, root, LastLeaf)
            headers == chunks[ci].headers
        IN /\ heap[LastLeaf].kind = "Leaf"
           /\ heap[LastLeaf].doc = chunks[ci].content
           /\ Len(path) = DeepestLevel(chunks[ci]) + 1
           /\ path[1] = root
           /\ \A level \in 1..DeepestLevel(chunks[ci]) :
                /\ heap[path[level + 1]].kind = "Inner"
                /\ path[level + 1] > MadeBefore =>
                     heap[path[level + 1]].name =
                        IF level \in DOMAIN headers
                        THEN headers[level] ELSE "DUMMY"

\* split_md has processed a chunk whose only header is at level 2 and that
\* met no open section but a DUMMY made for a chunk before it: its leaf
\* hangs under that DUMMY and a new level-2 section
C13_Witness ==
    /\ fn = "split_md"
    /\ pc = "md_loop"
    /\ ci >= 2
    /\ DOMAIN chunks[ci].headers = {2}
    /\ LET path == PathTo(heap, root, LastLeaf)
       IN /\ Len(path) = 3
          /\ heap[path[2]].name = "DUMMY"
          /\ path[2] < MadeBefore
          /\ path[3] > MadeBefore

----------------------------------------------------------------------------
(* Properties of the stage loop of split_node *)

\* the position of the stage of that name in split_stages, 0 for a name
\* that is no stage's
StageIndex(name) ==
    IF \E k \in 1..Len(split_stages) : split_stages[k].stage = name
    THEN CHOOSE k \in 1..Len(split_stages) : split_stages[k].stage = name
    ELSE 0

\* the number of stage nodes among the nodes of a path
RECURSIVE StageNodesOn(_, _)
StageNodesOn(h, path) ==
    IF path = <<>> THEN 0
    ELSE StageNodesOn(h, Tail(path))
            + (IF StageIndex(h[Head(path)].name) > 0 THEN 1 ELSE 0)

\* the stages start one after the other, each with a new generator, and the
\* closing assertions come after the last
StagesInOrder ==
    /\ stage' # stage => (stage' = stage + 1 /\ gen' = GenStart(root))
    /\ (pc' = "check" /\ pc # "check") => stage = Len(split_stages)

\* the generator of the running stage is in no node that stage made
NoDescentIntoOwnNodes ==
    pc = "stages" =>
        \A f \in 1..Len(gen) : heap[gen[f].node].name # split_stages[stage].stage

\* stage nodes are nested in the order of the stages: a node of the first
\* stage under a section, a node of a later stage under a node of the stage
\* before it, and none of a stage that has not started
StageNodesNested ==
    Sectioned =>
        \A i \in Subtree(heap, root) \ {root} :
            LET k == StageIndex(heap[i].name)
                above == StageIndex(heap[ParentOf(heap, root, i)].name)
            IN /\ k > 0 => (k <= stage /\ above = k - 1)
               /\ heap[i].kind = "Leaf" =>
                    StageNodesOn(heap, PathTo(heap, root, i)) <= Len(split_stages)

\* C14: the stages PAR, SNT, CHR of split_node start once each, in that
\* order; the leaf generator of a stage never descends into a node that
\* stage made; so every SNT node is a child of a PAR node, every CHR node a
\* child of an SNT node, and no leaf lies under more than three stage nodes.
C14_StagesOnceInOrder ==
    /\ [][StagesInOrder]_vars
    /\ [](NoDescentIntoOwnNodes /\ StageNodesNested)

\* the CHR stage is running, after PAR and SNT, and its generator is inside
\* a node the SNT stage made under a node the PAR stage made
C14_Witness ==
    /\ pc = "stages"
    /\ stage = 3
    /\ \E f \in 2..Len(gen) :
        /\ heap[gen[f].node].name = "SNT"
        /\ heap[gen[f - 1].node].name = "PAR"

\* the texts of the oversized leaves of the tree: what a stage hands to its
\* split function
OversizedLeafTexts ==
    {NodeText(heap, i) : i \in {j \in Subtree(heap, root) :
        heap[j].kind = "Leaf" /\ LeafLen(heap, j) > maxLength}}

\* C15: for every non-empty text and bound b > 0, no fragment of the list
\* split_node_to_list returns is empty, and split_sentences, called by the
\* SNT stage on a leaf, returns no empty fragment.
C15_NoEmptyFragment ==
    (text # <<>> /\ maxLength > 0) =>
        /\ ListReturned => \A k \in 1..Len(result) : result[k] # <<>>
        /\ (pc = "stages" /\ stage = StageIndex("SNT")) =>
              \A t \in OversizedLeafTexts :
                  \A k \in 1..Len(split_sentences(t)) : split_sentences(t)[k] # <<>>

----------------------------------------------------------------------------
(* split_node_to_list run to its end, for a call made on a str with the
   chunks cs the markdown splitter returns for it *)

\* split_md: "for chunk in chunks" from the k-th chunk on
RECURSIVE MdLoop(_, _, _, _, _)
MdLoop(h, stk, rootId, cs, k) ==
    IF k > Len(cs) THEN h
    ELSE LET out == MdChunk(h, stk, rootId, cs[k])
         IN MdLoop(out.heap, out.stack, rootId, cs, k + 1)

\* split_md on the heap h: the heap after it and the ROOT it returns
split_md(h, cs) ==
    [heap |-> MdLoop(Append(h, InnerDocumentNode("ROOT")),
                     <<Frame(0, "ROOT", NewId(h))>>, NewId(h), cs, 1),
     root |-> NewId(h)]

\* "for leaf, parent, cidx in root.iter_leaves()" of the stage st, from the
\* generator frames fr on
RECURSIVE LeafLoop(_, _, _, _)
LeafLoop(h, st, m, fr) ==
    LET y == GenNext(h, fr) IN
    IF y.done THEN [raised |-> "none", heap |-> h]
    ELSE LET out == LoopBody(h, st, m, y)
         IN IF out.raised # "none" THEN out
            ELSE LeafLoop(out.heap, st, m, y.frames)

\* "for stage, split_fn in split_stages" from the k-th stage on
RECURSIVE StageLoop(_, _, _, _)
StageLoop(h, rootId, m, k) ==
    IF k > Len(split_stages) THEN [raised |-> "none", heap |-> h]
    ELSE LET out == LeafLoop(h, split_stages[k], m, GenStart(rootId))
         IN IF out.raised # "none" THEN out
            ELSE StageLoop(out.heap, rootId, m, k + 1)

\* split_node(t, m) for a str t: the exception that leaves it, or the heap
\* and the root it returns
split_node(t, cs, m) ==
    LET md == split_md(<<LeafDocumentNode(t)>>, cs)
        out == StageLoop(md.heap, md.root, m, 1)
    IN IF NodeText(md.heap, md.root) # t
       THEN [raised |-> "AssertionError", heap |-> md.heap, root |-> md.root]
       ELSE IF out.raised # "none"
       THEN [raised |-> out.raised, heap |-> out.heap, root |-> md.root]
       ELSE IF LongLeaves(out.heap, md.root, m) # {}
               \/ NodeText(out.heap, md.root) # t
       THEN [raised |-> "AssertionError", heap |-> out.heap, root |-> md.root]
       ELSE [raised |-> "none", heap |-> out.heap, root |-> md.root]

\* split_node_to_list(t, m) for a str t
split_node_to_list(t, cs, m) ==
    LET out == split_node(t, cs, m) IN
    IF out.raised # "none" THEN [raised |-> out.raised, value |-> <<>>]
    ELSE [raised |-> "none", value |-> LeafTexts(out.heap, out.root)]

\* the stage nodes of the tree below r
StageNodesOf(h, r) == {i \in Subtree(h, r) : StageIndex(h[i].name) > 0}

\* C12 as stated: for every fragment f of the list split_node_to_list(t, b)
\* returns, b > 0, split_node_to_list(f, b) returns exactly [f], whatever
\* chunks the markdown splitter returns for f.
C12_RerunReturnsFragment ==
    (ListReturned /\ maxLength > 0) =>
        \A k \in 1..Len(result) : \A cs \in SplitText(result[k]) :
            split_node_to_list(result[k], cs, maxLength)
                = [raised |-> "none", value |-> <<result[k]>>]

\* C12 amended: for every fragment f of the list split_node_to_list(t, b)
\* returns, b > 0, no stage of split_node_to_list(f, b) replaces a leaf,
\* whatever chunks the markdown splitter returns for f, and when it returns
\* f as one chunk the call returns exactly [f].
C12_RerunSplitsNoLeaf ==
    (ListReturned /\ maxLength > 0) =>
        \A k \in 1..Len(result) : \A cs \in SplitText(result[k]) :
            LET again == split_node(result[k], cs, maxLength) IN
            /\ StageNodesOf(again.heap, again.root) = {}
            /\ Len(cs) = 1 =>
                 split_node_to_list(result[k], cs, maxLength)
                    = [raised |-> "none", value |-> <<result[k]>>]

\* a list of several fragments returned after a stage replaced a leaf, one
\* of them as long as the bound and of more than one character, for which
\* the markdown splitter may return one chunk or several
C12_Witness ==
    /\ ListReturned
    /\ StageNodesOf(heap, root) # {}
    /\ Len(result) >= 2
    /\ \E k \in 1..Len(result) :
        /\ Len(result[k]) = maxLength
        /\ \E cs \in SplitText(result[k]) : Len(cs) >= 2
        /\ \E cs \in SplitText(result[k]) :
            /\ Len(cs) = 1
            /\ split_node_to_list(result[k], cs, maxLength).value = <<result[k]>>

====
